---- MODULE Spec2Model ----
(***************************************************************************)
(* Model of the ManyChat extractor (veerababu74/spunkads).                 *)
(*                                                                         *)
(*   Spec        DataExtractor.load_more_broadcasts_paginated              *)
(*               (src/t/app_ultra_fast_oop.py): the cursor loop.           *)
(*   SpecLive    the cursor loop with its steps eventually taken.          *)
(*   SpecCursor  the cursor loop over up to four pages, bounded window.    *)
(*   SpecRevenue ManyChat_CSV_Processor.fetch_revenue_for_extracted_pages  *)
(*               and add_unmatched_utm_summary_rows (src/data_extraction)  *)
(*   SpecCsv     ManyChat_CSV_Processor.extract_data_from_json with        *)
(*               create_detailed_row / create_summary_row.                 *)
(*   SpecSummary the same conversion, for posts with every kind of stats.  *)
(*   SpecReconcile  fetch_revenue_for_extracted_pages called twice.        *)
(*   SpecRun     run_extraction: initialize, then the loop over the active *)
(*               pages of _execute_extraction.                             *)
(*   SpecSanitize   ManyChat_CSV_Processor.sanitize_csv_data.              *)
(*   SpecPipeline   run_full_pipeline (src/main_apps_script.py): upload of *)
(*               the CSV files, then cleanup_files.                        *)
(*                                                                         *)
(* Python values: an optional value is a sequence of length 0 (None or     *)
(* absent) or 1; a str is a sequence of one-character strings.             *)
(***************************************************************************)
EXTENDS Integers, Sequences, FiniteSets, TLC

VARIABLES
    \* ---- load_more_broadcasts_paginated: arguments and locals
    start_ts, end_ts, max_pages, verbose,
    all_posts, page_count, limiter, page_data, new_limiter, oldest_in_page,
    attempt, pc,
    \* ---- observers of the paginator (log line printed at the break, number
    \* of page fetches made through the driver, cursors sent)
    stop_reason, fetches, requested,
    \* ---- ManyChat_CSV_Processor: configuration and the revenue API
    pages_full_data, json_page_ids, extracted_page_ids, include_zero_revenue,
    has_credentials, api_response,
    \* ---- ManyChat_CSV_Processor: results of the reconciliation
    known_page_names, revenue_data, revenue_keys, unmatched_revenue_data,
    enhanced_summary_data, api_calls, rev_pc,
    \* ---- extract_data_from_json: the combined JSON and the rows made of it
    csv_json, detailed_data, summary_data, csv_pc,
    \* ---- run_extraction up to the end of _execute_extraction: the page
    \* configuration file, the profile, the loop over the active pages
    config_file, cfg_verbose, profile_name, run_i, all_results, current_driver,
    sessions_opened, outcomes, run_result, run_pc,
    \* ---- sanitize_csv_data: its argument and its result
    san_data, sanitized_data, san_pc,
    \* ---- run_full_pipeline after the extraction: the files of csv_output,
    \* Properties.CLEAR_FILES, the uploads made, the files removed
    csv_files, clear_files, upload_i, uploads, upload_success, deleted, pipe_pc

pagVars == <<start_ts, end_ts, max_pages, verbose, all_posts, page_count, limiter,
             page_data, new_limiter, oldest_in_page, attempt, pc, stop_reason,
             fetches, requested>>

revInputs == <<pages_full_data, json_page_ids, extracted_page_ids,
               include_zero_revenue, has_credentials, api_response>>

revVars == <<revInputs, known_page_names, revenue_data, revenue_keys,
             unmatched_revenue_data, enhanced_summary_data, api_calls, rev_pc>>

csvVars == <<csv_json, detailed_data, summary_data, csv_pc>>

runVars == <<config_file, cfg_verbose, profile_name, run_i, all_results,
             current_driver, sessions_opened, outcomes, run_result, run_pc>>

\* The three parts above, and the parts added to them.
coreVars == <<pagVars, revVars, csvVars>>
sanVars == <<san_data, sanitized_data, san_pc>>

pipeVars == <<csv_files, clear_files, upload_i, uploads, upload_success,
              deleted, pipe_pc>>

extVars == <<runVars, sanVars, pipeVars>>

vars == <<coreVars, extVars>>

----------------------------------------------------------------------------
(* Python helpers *)

None == <<>>
Some(x) == <<x>>

\* Python truthiness of an optional int: None and 0 are falsy.
TruthyInt(o) == o # None /\ o[1] # 0

\* Python truthiness of an optional str: None and "" are falsy.
TruthyStr(o) == o # None /\ o[1] # ""

----------------------------------------------------------------------------
(* Bounds of the paginator model *)

MaxPosts == 2
MaxPagesBound == 2

\* for attempt in range(10)
PollAttempts == 10

\* Epoch seconds, one value per class the code tells apart: 0 (falsy), 1 (before
\* the window [2, 2]), 2 (inside it), 3 (after it).
TsValues == {0, 1, 2, 3}
Limiters == {"L1", "L2"}

Posts == [timestamp : {None} \cup {Some(t) : t \in TsValues}]

SeqsUpTo(S, n) == UNION {[1..k -> S] : k \in 0..n}

\* A decoded history payload: {"posts": [...], "limiter": ...}
DictPayloads == [kind : {"dict"}, posts : SeqsUpTo(Posts, MaxPosts),
                 limiter : {None} \cup {Some(l) : l \in Limiters}]

\* No payload (None, or a falsy body such as {}).
NoPayload == [kind |-> "none", posts |-> <<>>, limiter |-> None]

\* A truthy body that is not a JSON object (for example a non-empty list).
NonObject == [kind |-> "nonobject", posts |-> <<>>, limiter |-> None]

Payloads == DictPayloads \cup {NoPayload, NonObject}

\* Date windows: start_date 00:00:00 .. end_date 23:59:59 (UTC-4), or none.
Windows == {<<None, None>>, <<Some(2), Some(2)>>}

----------------------------------------------------------------------------
(* The date filter loop, lines 417-435 *)

\* True for a Python sequence a that is a prefix of b.
IsPrefix(a, b) == Len(a) <= Len(b) /\ SubSeq(b, 1, Len(a)) = a

\* InRange without the comparison with end_ts.
InRange_noUpper(ts, s, e) ==
    IF TruthyInt(s) /\ TruthyInt(e) THEN s[1] <= ts ELSE TRUE

\* if start_ts and end_ts: start_ts <= post_ts <= end_ts; else: keep
InRange(ts, s, e) ==
    IF TruthyInt(s) /\ TruthyInt(e) THEN s[1] <= ts /\ ts <= e[1] ELSE TRUE

\* post_ts = post.get("timestamp"); if post_ts: ... append when in range
KeepPost(post, s, e) ==
    TruthyInt(post.timestamp) /\ InRange(post.timestamp[1], s, e)

\* page_posts_in_range after the for loop
PagePostsInRange(posts, s, e) ==
    SelectSeq(posts, LAMBDA post : KeepPost(post, s, e))

\* oldest_in_page after the for loop: the least truthy timestamp, or None
OldestInPage(posts) ==
    LET T == {posts[i].timestamp[1] :
                 i \in {j \in DOMAIN posts : TruthyInt(posts[j].timestamp)}}
    IN  IF T = {} THEN None
        ELSE Some(CHOOSE m \in T : \A x \in T : m <= x)

\* all_posts.extend(page_posts_in_range)
Extend(all, inrange) == all \o inrange

\* LoopGuard with <= for <.
LoopGuard_offByOne(count, limit) == count <= limit

\* while page_count < max_pages
LoopGuard(count, limit) == count < limit

\* if not new_limiter or new_limiter == limiter: break
CursorExhausted(new, old) == ~TruthyStr(new) \/ new = old

\* if start_ts and oldest_in_page and oldest_in_page < start_ts: break
PastWindow(s, oldest) ==
    TruthyInt(s) /\ TruthyInt(oldest) /\ oldest[1] < s[1]

\* StopCheck with the two checks in the other order.
StopCheck_pastWindowFirst(new, old, s, oldest) ==
    IF PastWindow(s, oldest) THEN "past window"
    ELSE IF CursorExhausted(new, old) THEN "cursor exhausted"
    ELSE "continue"

\* The break taken at lines 450-462, by the warning it prints, or "continue".
StopCheck(new, old, s, oldest) ==
    IF CursorExhausted(new, old) THEN "cursor exhausted"
    ELSE IF PastWindow(s, oldest) THEN "past window"
    ELSE "continue"

----------------------------------------------------------------------------
(* load_more_broadcasts_paginated as a state machine *)

PagInit ==
    /\ \E w \in Windows : start_ts = w[1] /\ end_ts = w[2]
    /\ max_pages \in 1..MaxPagesBound
    /\ verbose \in BOOLEAN
    /\ all_posts = <<>>
    /\ page_count = 0
    /\ limiter = None
    /\ page_data = NoPayload
    /\ new_limiter = None
    /\ oldest_in_page = None
    /\ attempt = 0
    /\ pc = "loop"
    /\ stop_reason = ""
    /\ fetches = 0
    /\ requested = <<>>

\* The while condition fails: fall out of the loop and return all_posts.
LoopExit ==
    /\ pc = "loop"
    /\ ~LoopGuard(page_count, max_pages)
    /\ pc' = "done"
    /\ stop_reason' = "page limit"
    /\ UNCHANGED <<start_ts, end_ts, max_pages, verbose, all_posts, page_count,
                   limiter, page_data, new_limiter, oldest_in_page, attempt,
                   fetches, requested>>
    /\ UNCHANGED <<revVars, csvVars, extVars>>

\* Lines 397-448 for the body d just obtained: no data -> break; a
\* non-object body raises AttributeError (page_data.get) out of the function;
\* no posts -> break; else filter the posts and extend all_posts.
ProcessPage(d) ==
    /\ page_data' = d
    /\ CASE d.kind = "none" ->
              /\ pc' = "done"
              /\ stop_reason' = "no data"
              /\ UNCHANGED <<all_posts, new_limiter, oldest_in_page>>
         [] d.kind = "nonobject" ->
              /\ pc' = "raised"
              /\ stop_reason' = "exception"
              /\ UNCHANGED <<all_posts, new_limiter, oldest_in_page>>
         [] d.kind = "dict" /\ d.posts = <<>> ->
              /\ pc' = "done"
              /\ stop_reason' = "empty page"
              /\ new_limiter' = d.limiter
              /\ UNCHANGED <<all_posts, oldest_in_page>>
         [] d.kind = "dict" /\ d.posts # <<>> ->
              /\ pc' = "decide"
              /\ new_limiter' = d.limiter
              /\ oldest_in_page' = OldestInPage(d.posts)
              /\ all_posts' = Extend(all_posts,
                                     PagePostsInRange(d.posts, start_ts, end_ts))
              /\ UNCHANGED stop_reason

\* Page 1 (lines 316-349, then 397-448): the body of the most recent captured
\* loadHistory exchange that decodes, or nothing, is processed.
CaptureFirstPage ==
    /\ pc = "loop"
    /\ LoopGuard(page_count, max_pages)
    /\ page_count = 0
    /\ page_count' = page_count + 1
    /\ fetches' = fetches + 1
    /\ \E d \in Payloads : ProcessPage(d)
    /\ UNCHANGED <<start_ts, end_ts, max_pages, verbose, limiter, attempt,
                   requested>>
    /\ UNCHANGED <<revVars, csvVars, extVars>>

\* Page k > 1 (lines 316-369): clear window.manychat_page_data and start the
\* fetch of target_url?limiter=<limiter>.
IssueRequest ==
    /\ pc = "loop"
    /\ LoopGuard(page_count, max_pages)
    /\ page_count >= 1
    /\ page_count' = page_count + 1
    /\ page_data' = NoPayload
    /\ attempt' = 0
    /\ fetches' = fetches + 1
    /\ requested' = Append(requested, limiter)
    /\ pc' = "poll"
    /\ UNCHANGED <<start_ts, end_ts, max_pages, verbose, all_posts, limiter,
                   new_limiter, oldest_in_page, stop_reason>>
    /\ UNCHANGED <<revVars, csvVars, extVars>>

\* PollEmpty going on to the next page after the tenth empty round.
PollEmpty_nextPage ==
    /\ pc = "poll"
    /\ attempt < PollAttempts
    /\ attempt' = attempt + 1
    /\ IF attempt + 1 < PollAttempts
       THEN UNCHANGED <<pc, stop_reason>>
       ELSE pc' = "loop" /\ UNCHANGED stop_reason
    /\ UNCHANGED <<start_ts, end_ts, max_pages, verbose, all_posts, page_count,
                   limiter, page_data, new_limiter, oldest_in_page, fetches,
                   requested>>
    /\ UNCHANGED <<revVars, csvVars, extVars>>

\* One empty round of the polling loop (lines 372-378); the tenth ends the
\* loop and pagination (lines 384-390).
PollEmpty ==
    /\ pc = "poll"
    /\ attempt < PollAttempts
    /\ attempt' = attempt + 1
    /\ IF attempt + 1 < PollAttempts
       THEN UNCHANGED <<pc, stop_reason>>
       ELSE pc' = "done" /\ stop_reason' = "bridge timeout"
    /\ UNCHANGED <<start_ts, end_ts, max_pages, verbose, all_posts, page_count,
                   limiter, page_data, new_limiter, oldest_in_page, fetches,
                   requested>>
    /\ UNCHANGED <<revVars, csvVars, extVars>>

\* A round of the polling loop returns a truthy result: break (lines
\* 372-378). attempt is not read after the loop: it is put back to 0.
PollResult ==
    /\ pc = "poll"
    /\ attempt < PollAttempts
    /\ attempt' = 0
    /\ pc' = "result"
    /\ UNCHANGED <<start_ts, end_ts, max_pages, verbose, all_posts, page_count,
                   limiter, page_data, new_limiter, oldest_in_page, fetches,
                   requested, stop_reason>>
    /\ UNCHANGED <<revVars, csvVars, extVars>>

\* What the truthy result is, and what is done with it (lines 380-383, then
\* 397-448): under verbose a non-object result raises inside the try
\* (page_data.get at line 382) and breaks; otherwise the result is processed.
ReadResult ==
    /\ pc = "result"
    /\ \E d \in Payloads \ {NoPayload} :
         IF d.kind = "nonobject" /\ verbose
         THEN /\ page_data' = d
              /\ pc' = "done"
              /\ stop_reason' = "request failed"
              /\ UNCHANGED <<all_posts, new_limiter, oldest_in_page>>
         ELSE ProcessPage(d)
    /\ UNCHANGED <<start_ts, end_ts, max_pages, verbose, page_count, limiter,
                   attempt, fetches, requested>>
    /\ UNCHANGED <<revVars, csvVars, extVars>>

\* driver.execute_script raises (transport error): except ...: break
RequestFails ==
    /\ pc = "poll"
    /\ pc' = "done"
    /\ stop_reason' = "request failed"
    /\ UNCHANGED <<start_ts, end_ts, max_pages, verbose, all_posts, page_count,
                   limiter, page_data, new_limiter, oldest_in_page, attempt,
                   fetches, requested>>
    /\ UNCHANGED <<revVars, csvVars, extVars>>

\* Lines 450-468: the stop checks after the append, in source order.
DecideStop ==
    /\ pc = "decide"
    /\ LET r == StopCheck(new_limiter, limiter, start_ts, oldest_in_page)
       IN  IF r = "continue"
           THEN pc' = "loop" /\ limiter' = new_limiter /\ UNCHANGED stop_reason
           ELSE pc' = "done" /\ stop_reason' = r /\ UNCHANGED limiter
    /\ UNCHANGED <<start_ts, end_ts, max_pages, verbose, all_posts, page_count,
                   page_data, new_limiter, oldest_in_page, attempt, fetches,
                   requested>>
    /\ UNCHANGED <<revVars, csvVars, extVars>>

----------------------------------------------------------------------------
(* Python str and number formatting used by the revenue reconciliation *)

RECURSIVE LStrip(_)
LStrip(s) == IF s # <<>> /\ Head(s) = " " THEN LStrip(Tail(s)) ELSE s

RECURSIVE RStrip(_)
RStrip(s) ==
    IF s # <<>> /\ s[Len(s)] = " " THEN RStrip(SubSeq(s, 1, Len(s) - 1)) ELSE s

\* str.strip()
Strip(s) == RStrip(LStrip(s))

DigitChars == <<"0", "1", "2", "3", "4", "5", "6", "7", "8", "9">>

Abs(n) == IF n < 0 THEN -n ELSE n

\* str(n) for an int n >= 0
RECURSIVE Digits(_)
Digits(n) ==
    IF n < 10 THEN <<DigitChars[n + 1]>>
    ELSE Digits(n \div 10) \o <<DigitChars[(n % 10) + 1]>>

\* f"{x:.2f}" for an amount x held in cents
Format2(cents) ==
    (IF cents < 0 THEN <<"-">> ELSE <<>>)
      \o Digits(Abs(cents) \div 100) \o <<".">>
      \o <<DigitChars[((Abs(cents) % 100) \div 10) + 1],
           DigitChars[(Abs(cents) % 10) + 1]>>

DigitVal(ch) == CHOOSE d \in 0..9 : DigitChars[d + 1] = ch

RECURSIVE DigitsVal(_)
DigitsVal(s) ==
    IF s = <<>> THEN 0
    ELSE 10 * DigitsVal(SubSeq(s, 1, Len(s) - 1)) + DigitVal(s[Len(s)])

\* float(s), in cents, for a string s of the form [-]d+.dd
ParseFloat2(s) ==
    LET neg  == s # <<>> /\ Head(s) = "-"
        body == IF neg THEN Tail(s) ELSE s
        dot  == CHOOSE i \in DOMAIN body : body[i] = "."
        val  == 100 * DigitsVal(SubSeq(body, 1, dot - 1))
                  + DigitsVal(SubSeq(body, dot + 1, Len(body)))
    IN  IF neg THEN -val ELSE val

\* str(row.get(key, "")) for a key that is absent or holds a str
StrOrEmpty(o) == IF o = None THEN <<>> ELSE o[1]

\* try: float(row.get("a", 0)) except (ValueError, TypeError): 0.00
FloatOrZero(o) == IF o = None THEN 0 ELSE o[1]

\* dict.update
Update(d1, d2) ==
    [k \in DOMAIN d1 \cup DOMAIN d2 |-> IF k \in DOMAIN d2 THEN d2[k] ELSE d1[k]]

\* The elements of a sequence in order of first occurrence.
RECURSIVE Dedupe(_)
Dedupe(seq) ==
    IF seq = <<>> THEN <<>>
    ELSE LET front == Dedupe(SubSeq(seq, 1, Len(seq) - 1))
             last  == seq[Len(seq)]
         IN  IF \E i \in DOMAIN front : front[i] = last THEN front
             ELSE Append(front, last)

----------------------------------------------------------------------------
(* Inputs of the revenue reconciliation *)

MaxEntities == 2
MaxRows == 2

Letters == <<"A", "B", "C", "D">>

\* Entity names PageA, PageB, ...
PageName(i) == <<"P", "a", "g", "e", Letters[i]>>

PageA == PageName(1)
PageA_padded == <<" ">> \o PageA \o <<" ">>
PageA_lower == <<"p", "a", "g", "e", "a">>
Unknown1 == <<"U", "n", "k", "n", "o", "w", "n", "1">>
EmptyStr == <<>>

\* One element of the API's JSON array: an object with utm_s, a (cents; None
\* for null or an unparsable value), dt, c, cl, l; or something else.
DictRow(tag, payout) ==
    [kind |-> "dict", utm_s |-> Some(tag), a |-> payout, dt |-> "2025-09-26",
     c |-> Some(1), cl |-> Some(2), l |-> Some(3)]

NonDictRow ==
    [kind |-> "other", utm_s |-> None, a |-> None, dt |-> "", c |-> None,
     cl |-> None, l |-> None]

TagValues == {EmptyStr, PageA, PageA_padded, PageA_lower, Unknown1}

FeedRows ==
    {DictRow(t, Some(500)) : t \in TagValues}
      \cup {DictRow(t, p) : t \in {PageA, Unknown1}, p \in {None, Some(-200)}}
      \cup {[DictRow(PageName(2), Some(500)) EXCEPT !.c = None]}
      \cup {NonDictRow}

\* Scenario A of the specification: PageA 10.50, PageA 5.00, Unknown1 2.00.
ScenarioA_rows ==
    <<DictRow(PageA, Some(1050)), DictRow(PageA, Some(500)),
      DictRow(Unknown1, Some(200))>>

\* What requests.get(...).json() gives: a list, another JSON value, or an
\* exception (RequestException, JSONDecodeError).
\* The "not_list" body is a JSON object wrapping the rows of Scenario A.
ApiFailures ==
    {[kind |-> k, rows |-> IF k = "not_list" THEN ScenarioA_rows ELSE <<>>] :
        k \in {"not_list", "request_error", "json_error"}}

ApiResponses ==
    {[kind |-> "list", rows |-> r] :
        r \in SeqsUpTo(FeedRows, MaxRows) \cup {ScenarioA_rows}}
      \cup ApiFailures

\* page_ids.json of the processor: k pages PageA.. with ids 1..k; page number
\* nameless (if not 0) has "name": "".
PagesFullData(k, nameless) ==
    [i \in 1..k |->
        [id |-> i, name |-> IF i = nameless THEN EmptyStr ELSE PageName(i)]]

PageConfigs ==
    {PagesFullData(k, j) : k \in 0..MaxEntities, j \in 0..MaxEntities}

----------------------------------------------------------------------------
(* ManyChat_CSV_Processor: the revenue reconciliation *)

\* The record written for a page without revenue (lines 161-169, 218-226,
\* 239-247); str values are sequences of characters.
DefaultRecord ==
    [revenue |-> <<"0", ".", "0", "0">>, timestamp |-> "N/A",
     conversion_count |-> EmptyStr, clicks |-> EmptyStr, leads |-> EmptyStr]

EmptyDict == [k \in {} |-> DefaultRecord]

\* known_page_names after the loop at lines 123-133
KnownPageNames(pages) == {pages[i].name : i \in DOMAIN pages}

\* call_spunkstats_api without the shape check of the decoded body.
CallSpunkstatsApi_noShapeCheck(resp) ==
    IF resp.kind \in {"list", "not_list"} THEN Some(resp.rows) ELSE None

\* call_spunkstats_api: {"data": data, "status": 200} for a list (Some(data)
\* here), {} for anything else (None here).
CallSpunkstatsApi(resp) ==
    IF resp.kind = "list" THEN Some(resp.rows) ELSE None

\* utm_s = str(row.get("utm_s", "")).strip()
UtmS(row) == Strip(StrOrEmpty(row.utm_s))

RECURSIVE TotalRevenue(_)
\* total_revenue += revenue over the rows given
TotalRevenue(rows) ==
    IF rows = <<>> THEN 0
    ELSE TotalRevenue(SubSeq(rows, 1, Len(rows) - 1))
           + FloatOrZero(rows[Len(rows)].a)

\* try: int(c), int(cl), int(l) except: conversions = clicks = leads = 0
RowCounters(row) ==
    IF row.c = None \/ row.cl = None \/ row.l = None THEN <<0, 0, 0>>
    ELSE <<row.c[1], row.cl[1], row.l[1]>>

RECURSIVE TotalCounter(_, _)
TotalCounter(rows, k) ==
    IF rows = <<>> THEN 0
    ELSE TotalCounter(SubSeq(rows, 1, Len(rows) - 1), k)
           + RowCounters(rows[Len(rows)])[k]

\* PageMatches comparing case-insensitively (on the letters P and A).
PageMatches_caseInsensitive(row, page_name) ==
    /\ row.kind = "dict"
    /\ LET lower(s) == [i \in DOMAIN s |->
                          IF s[i] = "A" THEN "a"
                          ELSE IF s[i] = "P" THEN "p" ELSE s[i]]
       IN  lower(UtmS(row)) = lower(page_name)

\* isinstance(row, dict) and utm_s == page_name
PageMatches(row, page_name) == row.kind = "dict" /\ UtmS(row) = page_name

\* extract_revenue_and_timestamp_for_page: None when no row matches
ExtractRevenueAndTimestampForPage(data_array, page_name) ==
    LET matching_rows ==
            SelectSeq(data_array, LAMBDA row : PageMatches(row, page_name))
    IN  IF matching_rows = <<>> THEN None
        ELSE Some([revenue |-> Format2(TotalRevenue(matching_rows)),
                   timestamp |-> matching_rows[1].dt,
                   conversion_count |-> Digits(TotalCounter(matching_rows, 1)),
                   clicks |-> Digits(TotalCounter(matching_rows, 2)),
                   leads |-> Digits(TotalCounter(matching_rows, 3))])

\* UnmatchedRows without the test against the known page names.
UnmatchedRows_noKnownCheck(data_array, known) ==
    SelectSeq(data_array,
              LAMBDA row : row.kind = "dict" /\ UtmS(row) # EmptyStr)

\* The rows extract_unmatched_utm_sources aggregates: objects whose stripped
\* tag is not empty and not a known page name.
UnmatchedRows(data_array, known) ==
    SelectSeq(data_array,
              LAMBDA row : /\ row.kind = "dict"
                           /\ UtmS(row) # EmptyStr
                           /\ UtmS(row) \notin known)

\* The keys of utm_s_revenue_map in insertion order.
UnmatchedOrder(data_array, known) ==
    LET rows == UnmatchedRows(data_array, known)
    IN  Dedupe([i \in DOMAIN rows |-> UtmS(rows[i])])

\* extract_unmatched_utm_sources
ExtractUnmatchedUtmSources(data_array, known, include_zero) ==
    LET rows     == UnmatchedRows(data_array, known)
        of(k)    == SelectSeq(rows, LAMBDA row : UtmS(row) = k)
        keys     == {UtmS(rows[i]) : i \in DOMAIN rows}
        kept     == {k \in keys : TotalRevenue(of(k)) > 0 \/ include_zero}
    IN  [k \in kept |->
            [revenue |-> Format2(TotalRevenue(of(k))),
             timestamp |-> of(k)[1].dt,
             conversion_count |-> EmptyStr, clicks |-> EmptyStr,
             leads |-> EmptyStr]]

\* PageRecords leaving out the pages no row matches.
PageRecords_matchedOnly(data_array, pages) ==
    LET matched == {n \in KnownPageNames(pages) :
                       ExtractRevenueAndTimestampForPage(data_array, n) # None}
    IN  [n \in matched |->
            ExtractRevenueAndTimestampForPage(data_array, n)[1]]

\* The per-page loop at lines 201-228.
PageRecords(data_array, pages) ==
    [n \in KnownPageNames(pages) |->
        LET revenue_info == ExtractRevenueAndTimestampForPage(data_array, n)
        IN  IF revenue_info # None THEN revenue_info[1] ELSE DefaultRecord]

\* The default record for every page (lines 159-170, 237-247, 254-264).
DefaultRecords(pages) == [n \in KnownPageNames(pages) |-> DefaultRecord]

\* Page names in page_ids.json order, each once: the key order of the dict.
PageOrder(pages) == Dedupe([i \in DOMAIN pages |-> pages[i].name])

----------------------------------------------------------------------------
(* Posts of the combined JSON as the CSV conversion reads them *)

MaxCsvPosts == 2

UpperChars == <<"A", "B", "C", "D", "E", "F", "G", "H", "I", "J", "K", "L", "M",
                "N", "O", "P", "Q", "R", "S", "T", "U", "V", "W", "X", "Y", "Z">>
LowerChars == <<"a", "b", "c", "d", "e", "f", "g", "h", "i", "j", "k", "l", "m",
                "n", "o", "p", "q", "r", "s", "t", "u", "v", "w", "x", "y", "z">>

\* str.lower()
Lower(s) ==
    [i \in DOMAIN s |->
        IF \E k \in DOMAIN UpperChars : UpperChars[k] = s[i]
        THEN LowerChars[CHOOSE k \in DOMAIN UpperChars : UpperChars[k] = s[i]]
        ELSE s[i]]

\* Properties.EXCLUDE_CAMPAIGN_NAMES
EXCLUDE_CAMPAIGN_NAMES ==
    << <<"t", "e", "s", "t">>, <<"d", "r", "a", "f", "t">>,
       <<"s", "a", "m", "p", "l", "e">>, <<"c", "o", "p", "y">> >>

Name_test == <<"t", "e", "s", "t">>
Name_Test == <<"T", "e", "s", "t">>
Name_promo == <<"p", "r", "o", "m", "o">>
Name_My_Test == <<"M", "y", " ", "T", "e", "s", "t">>

\* A post: its campaign name (flow.name) and its stats (None when the key
\* is absent or null).
StatsPost(name, sent, delivered, read, opened, clicked) ==
    [name |-> name, sent |-> sent, delivered |-> delivered, read |-> read,
     opened |-> opened, clicked |-> clicked]

\* A post whose stats hold "sent" at most.
CsvPost(name, sent) == StatsPost(name, sent, None, None, None, None)

CsvPosts ==
    {CsvPost(n, Some(5)) : n \in {Name_test, Name_Test, Name_promo,
                                  Name_My_Test}}
      \cup {CsvPost(Name_promo, None)}

\* The posts among ps that belong to page i, in order; owner[n] is the page
\* of ps[n].
RECURSIVE PostsOfPage(_, _, _)
PostsOfPage(ps, owner, i) ==
    IF ps = <<>> THEN <<>>
    ELSE PostsOfPage(SubSeq(ps, 1, Len(ps) - 1), owner, i)
           \o (IF owner[Len(ps)] = i THEN <<ps[Len(ps)]>> ELSE <<>>)

\* Posts for the totals of a summary row: read and opened are each absent or
\* null, 0 or 2; sent, delivered and clicked are a number or absent or null.
StatsPosts ==
    {StatsPost(Name_promo, t[1], t[2], r, o, t[3]) :
        t \in {<<None, None, None>>, <<Some(5), None, Some(1)>>,
               <<Some(0), Some(4), None>>},
        r \in {None, Some(0), Some(2)},
        o \in {None, Some(0), Some(3)}}

\* The combined JSONs of k pages, ids 1..k, each
\* {"posts": [...], "page_info": {...}}, with at most MaxCsvPosts posts in all.
CsvJsons(k) ==
    {[i \in 1..k |-> [page_id |-> i, posts |-> PostsOfPage(ps, owner, i)]] :
        ps \in SeqsUpTo(CsvPosts, MaxCsvPosts),
        owner \in [1..MaxCsvPosts -> 1..k]}

\* stats.get("sent", 0) or 0
IntOrZero(o) == IF o = None THEN 0 ELSE o[1]

\* name.lower() in [exclude.lower() for exclude in EXCLUDE_CAMPAIGN_NAMES]
IsExcluded(name) ==
    \E i \in DOMAIN EXCLUDE_CAMPAIGN_NAMES :
        Lower(name) = Lower(EXCLUDE_CAMPAIGN_NAMES[i])

RECURSIVE TotalStat(_, _)
\* total += stats.get(key, 0) or 0 over the posts given, for the keys
\* "sent", "delivered" and "clicked"
TotalStat(posts, key) ==
    IF posts = <<>> THEN 0
    ELSE TotalStat(SubSeq(posts, 1, Len(posts) - 1), key)
           + IntOrZero(posts[Len(posts)][key])

\* total_sent over the posts given
TotalSent(posts) == TotalStat(posts, "sent")

\* The read count taken from "read" alone
ReadOrOpened_readOnly(post) == IntOrZero(post.read)

\* (stats.get("read", 0) or 0) or (stats.get("opened", 0) or 0)
ReadOrOpened(post) ==
    LET read == IntOrZero(post.read)
    IN  IF read # 0 THEN read ELSE IntOrZero(post.opened)

RECURSIVE TotalRead(_)
\* total_read += (read or 0) or (opened or 0)
TotalRead(posts) ==
    IF posts = <<>> THEN 0
    ELSE TotalRead(SubSeq(posts, 1, Len(posts) - 1))
           + ReadOrOpened(posts[Len(posts)])

\* get_page_details for a page id of the combined JSON: the page_ids.json
\* entry with that id, or the "Unknown" defaults, with the revenue record
\* found under the entry's name.
GetPageDetails(page_id) ==
    LET configured == page_id \in DOMAIN pages_full_data
        name == IF configured THEN pages_full_data[page_id].name
                ELSE <<"U", "n", "k", "n", "o", "w", "n">>
        revenue_info == IF name \in DOMAIN revenue_data THEN revenue_data[name]
                        ELSE DefaultRecord
    IN  [account_name |-> IF configured THEN "Known" ELSE "Unknown",
         name |-> name, revenue_info |-> revenue_info]

\* create_detailed_row: None for an excluded campaign
CreateDetailedRow(page_id, post) ==
    IF IsExcluded(post.name) THEN None
    ELSE Some([pagename |-> PageName(page_id), campaign_name |-> post.name,
               sent |-> IntOrZero(post.sent),
               account_name |-> GetPageDetails(page_id).account_name])

\* create_summary_row
CreateSummaryRow(page_id, posts) ==
    LET page_details == GetPageDetails(page_id)
    IN  [pagename |-> PageName(page_id),
         totalCampaigns |-> Len(posts),
         totalSent |-> TotalSent(posts),
         totalDelivered |-> TotalStat(posts, "delivered"),
         totalRead |-> TotalRead(posts),
         totalClicked |-> TotalStat(posts, "clicked"),
         account_name |-> page_details.account_name,
         revenue |-> page_details.revenue_info.revenue,
         revenue_timestamp |-> page_details.revenue_info.timestamp]

\* The posts of a page of the combined JSON in a revenue run: one post
\* carrying flow.page_id when the id is in extracted_page_ids, else none.
JsonPosts(page_id) ==
    IF page_id \in extracted_page_ids
    THEN <<CsvPost(Name_promo, Some(5))>> ELSE <<>>

\* The row appended for an unmatched utm_s (lines 395-409).
UnmatchedSummaryRow(utm_s) ==
    [pagename |-> utm_s, totalCampaigns |-> 0, totalSent |-> 0,
     totalDelivered |-> 0, totalRead |-> 0, totalClicked |-> 0,
     account_name |-> "SpunkStats Only",
     revenue |-> revenue_data[utm_s].revenue,
     revenue_timestamp |-> revenue_data[utm_s].timestamp]

\* AddUnmatchedUtmSummaryRows skipping a revenue of 0 or less whatever the
\* configuration says.
AddUnmatchedUtmSummaryRows_skipZero(existing_summary_data) ==
    IF DOMAIN revenue_data = {} THEN existing_summary_data
    ELSE LET added ==
                 SelectSeq(revenue_keys,
                     LAMBDA k :
                         /\ k \notin known_page_names
                         /\ ~(ParseFloat2(revenue_data[k].revenue) <= 0))
         IN  existing_summary_data
               \o [i \in DOMAIN added |-> UnmatchedSummaryRow(added[i])]

\* add_unmatched_utm_summary_rows
AddUnmatchedUtmSummaryRows(existing_summary_data) ==
    IF DOMAIN revenue_data = {} THEN existing_summary_data
    ELSE LET added ==
                 SelectSeq(revenue_keys,
                     LAMBDA k :
                         /\ k \notin known_page_names
                         /\ ~(ParseFloat2(revenue_data[k].revenue) <= 0
                                /\ ~include_zero_revenue))
         IN  existing_summary_data
               \o [i \in DOMAIN added |-> UnmatchedSummaryRow(added[i])]

----------------------------------------------------------------------------
(* Page configuration: ConfigurationManager and ManyChatExtractorOOP.initialize *)

\* One entry of "pages" in page_ids.json: each key may be absent.
ConfigPages == [id : {None, Some("id")}, name : {None, Some("name")},
                active : {None, Some(TRUE), Some(FALSE)}]

\* The file page_ids.json: absent (None), or a JSON object whose "pages" key
\* is absent (None) or a list of at most n entries.
ConfigFiles(n) ==
    {None} \cup {Some([pages |-> ps]) :
                    ps \in {None} \cup {Some(l) : l \in SeqsUpTo(ConfigPages, n)}}

\* p.get("active", True)
IsActive(p) == IF p.active = None THEN TRUE ELSE p.active[1]

\* [p for p in pages if p.get("active", True)], as positions in "pages"
RECURSIVE ActiveIndexes(_)
ActiveIndexes(pages) ==
    IF pages = <<>> THEN <<>>
    ELSE LET n == Len(pages)
             before == ActiveIndexes(SubSeq(pages, 1, n - 1))
         IN  IF IsActive(pages[n]) THEN Append(before, n) ELSE before

\* load_page_config: None when the file is absent, has no "pages" key, or
\* the listing of the active pages raises (page['name'], page['id'] are read
\* only when verbose); the configuration otherwise.
LoadPageConfig(file, verb) ==
    IF file = None THEN None
    ELSE IF file[1].pages = None THEN None
    ELSE LET pages == file[1].pages[1]
             act == ActiveIndexes(pages)
         IN  IF verb /\ \E k \in DOMAIN act :
                            pages[act[k]].name = None \/ pages[act[k]].id = None
             THEN None
             ELSE file

\* The errors of the pages from position i on: one per missing field.
RECURSIVE FieldErrors(_, _)
FieldErrors(pages, i) ==
    IF i > Len(pages) THEN <<>>
    ELSE (IF pages[i].id = None THEN <<"missing id">> ELSE <<>>)
           \o (IF pages[i].name = None THEN <<"missing name">> ELSE <<>>)
           \o FieldErrors(pages, i + 1)

\* validate_config without the check of the required fields
ValidateConfig_noFieldCheck(config) ==
    /\ config.pages[1] # <<>>
    /\ ActiveIndexes(config.pages[1]) # <<>>

\* validate_config on a loaded configuration: len(errors) == 0
ValidateConfig(config) ==
    LET pages == config.pages[1]
        errors ==
            (IF pages = <<>> THEN <<"No pages defined in configuration">> ELSE <<>>)
              \o (IF Len(ActiveIndexes(pages)) = 0
                  THEN <<"No active pages found">> ELSE <<>>)
              \o FieldErrors(pages, 1)
    IN  Len(errors) = 0

\* ManyChatExtractorOOP.initialize
Initialize(file, verb) ==
    LET current_config == LoadPageConfig(file, verb)
    IN  IF current_config = None THEN FALSE
        ELSE ValidateConfig(current_config[1])

\* The value run_extraction hands back when _execute_extraction has ended.
RunResult(ok, err, results) == [success |-> ok, error |-> err, results |-> results]

----------------------------------------------------------------------------
(* Values of CSV rows and sanitize_csv_data *)

MaxCols == 2

\* A Python value of a row: its type, and for a number its sign and its
\* magnitude ("nan" and "inf" for the floats that are no number), for a str
\* its text.
PyValue(t, sign, mag) == [t |-> t, sign |-> sign, mag |-> mag]
PyNone == PyValue("none", 1, "")
PyStr(text) == PyValue("str", 1, text)
PyFloat(sign, mag) == PyValue("float", sign, mag)

PyValues ==
    {PyNone, PyStr("Page1"), PyStr(""), PyValue("bool", 1, "1"),
     PyValue("int", 1, "100"), PyValue("int", -1, "7"), PyValue("int", 1, "0"),
     PyFloat(1, "0.5"), PyFloat(-1, "0.5"),
     PyFloat(1, "nan"), PyFloat(1, "inf"), PyFloat(-1, "inf")}

\* The keys of a row, in the order of the dict.
RowKeys == <<"name", "value", "rate", "revenue">>

\* A row of the values given: a dict, as the sequence of its items.
Row(values) == [j \in DOMAIN values |-> [key |-> RowKeys[j], value |-> values[j]]]

\* The rows of test_csv_sanitization
TestRows ==
    << Row(<<PyStr("Page1"), PyValue("int", 1, "100"), PyFloat(1, "0.5")>>),
       Row(<<PyStr("Page2"), PyNone, PyFloat(1, "nan")>>),
       Row(<<PyStr("Page3"), PyFloat(1, "inf"), PyFloat(1, "0.3")>>),
       Row(<<PyNone, PyValue("int", 1, "200"), PyFloat(-1, "inf")>>) >>

\* The arguments of sanitize_csv_data: no row, one row of at most n values,
\* or such a row followed by a row of the test.
SanInputs(n) ==
    {<<>>}
      \cup {<<Row(vs)>> : vs \in SeqsUpTo(PyValues, n)}
      \cup {<<Row(vs), TestRows[k]>> :
               vs \in SeqsUpTo(PyValues, n), k \in DOMAIN TestRows}

\* abs(value)
PyAbs(v) == [v EXCEPT !.sign = 1]

\* a == b for two numbers: their values are compared, whatever their types
\* (NaN equals nothing)
PyEq(a, b) == a.sign = b.sign /\ a.mag = b.mag /\ a.mag # "nan"

\* The value test without abs(): value == float("inf")
SanitizeValue_noAbs(value) ==
    IF value.t = "none" THEN PyStr("")
    ELSE IF value.t = "float" /\ ~PyEq(value, value) THEN PyStr("")
    ELSE IF value.t \in {"int", "float", "bool"}
              /\ PyEq(value, PyFloat(1, "inf")) THEN PyStr("")
    ELSE value

\* The if / elif chain of sanitize_csv_data (lines 966-973): value is None;
\* isinstance(value, float) and value != value; isinstance(value, (int,
\* float)), which a bool is too, and abs(value) == float("inf").
SanitizeValue(value) ==
    IF value.t = "none" THEN PyStr("")
    ELSE IF value.t = "float" /\ ~PyEq(value, value) THEN PyStr("")
    ELSE IF value.t \in {"int", "float", "bool"}
              /\ PyEq(PyAbs(value), PyFloat(1, "inf")) THEN PyStr("")
    ELSE value

\* sanitized_row after the loop over row.items(): each key is inserted in the
\* order of the row.
RECURSIVE SanitizeRow(_)
SanitizeRow(row) ==
    IF row = <<>> THEN <<>>
    ELSE LET n == Len(row)
         IN  Append(SanitizeRow(SubSeq(row, 1, n - 1)),
                    [key |-> row[n].key, value |-> SanitizeValue(row[n].value)])

\* sanitize_csv_data
RECURSIVE SanitizeCsvData(_)
SanitizeCsvData(data) ==
    IF data = <<>> THEN <<>>
    ELSE LET n == Len(data)
         IN  Append(SanitizeCsvData(SubSeq(data, 1, n - 1)), SanitizeRow(data[n]))

----------------------------------------------------------------------------
(* The upload of the CSV files: GoogleAppsScriptUploader *)

MaxFiles == 2

\* Properties.DETAILED_SHEET_NAME, Properties.SUMMARY_SHEET_NAME
DETAILED_SHEET_NAME == "test"
SUMMARY_SHEET_NAME == "test1"

\* Properties.get_apps_script_config()["sheets_mapping"]
SheetsMapping == [detailed |-> DETAILED_SHEET_NAME, summary |-> SUMMARY_SHEET_NAME]

Word_detailed == <<"d", "e", "t", "a", "i", "l", "e", "d">>
Word_summary == <<"s", "u", "m", "m", "a", "r", "y">>

\* Names of files of csv_output: a detailed file, a summary file with a
\* capital, a file whose name holds both words, a file holding neither.
FileNames ==
    {Word_detailed, <<"S">> \o Tail(Word_summary),
     Word_summary \o <<"_">> \o Word_detailed, <<"o", "t", "h", "e", "r">>}

\* glob("csv_output/*.csv"): at most n files, no name twice, in any order.
CsvDirs(n) ==
    {fs \in SeqsUpTo(FileNames, n) :
        \A i, j \in DOMAIN fs : fs[i] = fs[j] => i = j}

\* sub in s
Contains(sub, s) ==
    \E k \in 0..(Len(s) - Len(sub)) : SubSeq(s, k + 1, k + Len(sub)) = sub

\* The sheet of a file (lines 204-210)
TargetSheet(filename) ==
    IF Contains(Word_detailed, Lower(filename)) THEN SheetsMapping.detailed
    ELSE IF Contains(Word_summary, Lower(filename)) THEN SheetsMapping.summary
    ELSE SheetsMapping.detailed

----------------------------------------------------------------------------
(* The parts of the program a specification leaves out stay as constructed *)

\* The paginator is not part of the run.
PagIdle ==
    /\ start_ts = None /\ end_ts = None
    /\ max_pages = 1
    /\ verbose = TRUE
    /\ all_posts = <<>>
    /\ page_count = 0
    /\ limiter = None
    /\ page_data = NoPayload
    /\ new_limiter = None
    /\ oldest_in_page = None
    /\ attempt = 0
    /\ pc = "idle"
    /\ stop_reason = ""
    /\ fetches = 0
    /\ requested = <<>>

\* The processor is not part of the run.
RevIdle ==
    /\ pages_full_data = <<>>
    /\ include_zero_revenue = TRUE
    /\ json_page_ids = <<>>
    /\ extracted_page_ids = {}
    /\ has_credentials = FALSE
    /\ api_response = [kind |-> "list", rows |-> <<>>]
    /\ known_page_names = {}
    /\ revenue_data = EmptyDict
    /\ revenue_keys = <<>>
    /\ unmatched_revenue_data = EmptyDict
    /\ enhanced_summary_data = <<>>
    /\ api_calls = 0
    /\ rev_pc = "idle"

\* No JSON is being converted.
CsvIdle ==
    /\ csv_json = <<>>
    /\ detailed_data = <<>>
    /\ summary_data = <<>>
    /\ csv_pc = "idle"

\* No extraction is being run.
RunIdle ==
    /\ config_file = None
    /\ cfg_verbose = TRUE
    /\ profile_name = None
    /\ run_i = 0
    /\ all_results = <<>>
    /\ current_driver = None
    /\ sessions_opened = 0
    /\ outcomes = <<>>
    /\ run_result = RunResult(FALSE, "", <<>>)
    /\ run_pc = "idle"

\* No rows are being sanitised.
SanIdle ==
    /\ san_data = <<>>
    /\ sanitized_data = <<>>
    /\ san_pc = "idle"

\* No pipeline is being run.
PipeIdle ==
    /\ csv_files = <<>>
    /\ clear_files = TRUE
    /\ upload_i = 0
    /\ uploads = <<>>
    /\ upload_success = FALSE
    /\ deleted = {}
    /\ pipe_pc = "idle"

ExtIdle == RunIdle /\ SanIdle /\ PipeIdle

----------------------------------------------------------------------------
(* Specification of the paginator *)

Init == PagInit /\ RevIdle /\ CsvIdle /\ ExtIdle

Next ==
    \/ LoopExit
    \/ CaptureFirstPage
    \/ IssueRequest
    \/ PollEmpty
    \/ PollResult
    \/ ReadResult
    \/ RequestFails
    \/ DecideStop

Spec == Init /\ [][Next]_vars

\* The paginator run to completion: the function is one sequential thread,
\* so a step that can be taken is eventually taken.
SpecLive == Init /\ [][Next]_vars /\ WF_vars(Next)

\* The paginator called with a bounded window and up to MaxCursorPages
\* pages, so that a cursor can come back after two other requests.
MaxCursorPages == 4

CursorInit ==
    /\ start_ts = Some(2) /\ end_ts = Some(2)
    /\ max_pages \in 1..MaxCursorPages
    /\ verbose \in BOOLEAN
    /\ all_posts = <<>>
    /\ page_count = 0
    /\ limiter = None
    /\ page_data = NoPayload
    /\ new_limiter = None
    /\ oldest_in_page = None
    /\ attempt = 0
    /\ pc = "loop"
    /\ stop_reason = ""
    /\ fetches = 0
    /\ requested = <<>>

InitCursor == CursorInit /\ RevIdle /\ CsvIdle /\ ExtIdle

SpecCursor == InitCursor /\ [][Next]_vars

----------------------------------------------------------------------------
(* Properties of the paginator *)

Bounded == start_ts # None /\ end_ts # None

Post(t) == [timestamp |-> Some(t)]

\* The last n elements of a sequence.
Tail_n(seq, n) == SubSeq(seq, Len(seq) - n + 1, Len(seq))

\* A post lies in the window: with a bounded window its timestamp is a number
\* between start and end; with no window every post does.
InWindow(post) ==
    IF Bounded
    THEN post.timestamp # None /\ start_ts[1] <= post.timestamp[1]
                               /\ post.timestamp[1] <= end_ts[1]
    ELSE TRUE

\* C1: with a bounded date window every record accumulated in (and so
\* returned from) all_posts has start_ts <= timestamp <= end_ts.
C1_WindowContainment ==
    Bounded =>
        \A i \in DOMAIN all_posts :
            /\ all_posts[i].timestamp # None
            /\ start_ts[1] <= all_posts[i].timestamp[1]
            /\ all_posts[i].timestamp[1] <= end_ts[1]

\* C1 witness: a bounded run returned records although its last page also
\* held a post outside the window.
C1_Witness ==
    /\ pc = "done" /\ Bounded /\ all_posts # <<>>
    /\ page_count >= 2
    /\ \E i \in DOMAIN page_data.posts : ~InWindow(page_data.posts[i])
    /\ \E i \in DOMAIN page_data.posts :
           /\ page_data.posts[i].timestamp # None
           /\ page_data.posts[i].timestamp[1] > end_ts[1]

\* C2: the number of page fetches (the passively observed first page and
\* every actively issued request) never exceeds max_pages.
C2_PaginationBound == fetches <= max_pages

\* C2 witness: the endpoint kept returning non-empty pages with a fresh
\* cursor and the loop ended at the page limit after max_pages fetches.
C2_Witness ==
    /\ pc = "done" /\ stop_reason = "page limit"
    /\ max_pages >= 2 /\ fetches = max_pages
    /\ page_data.posts # <<>> /\ TruthyStr(new_limiter) /\ limiter = new_limiter

\* C3: every page obtained with posts has all its in-window posts appended
\* to all_posts, in order, whatever stop condition follows, and nothing
\* appended is dropped afterwards.
C3_TerminationInclusion ==
    [][/\ (pc \in {"loop", "result"} /\ pc' = "decide")
          => all_posts' = all_posts \o SelectSeq(page_data'.posts, InWindow)
       /\ IsPrefix(all_posts, all_posts')]_vars

\* C4: after a page whose cursor is absent or equal to the one it was
\* requested with, the loop ends with "cursor exhausted" and without another
\* fetch, also when the page is past the window as well; that page's
\* in-window posts are then the tail of the result.
C4_CursorExhaustion ==
    [][/\ (pc = "decide" /\ (new_limiter = None \/ new_limiter = limiter))
          => /\ pc' = "done"
             /\ stop_reason' = "cursor exhausted"
             /\ fetches' = fetches
             /\ PastWindow(start_ts, oldest_in_page)
                  => LET kept == SelectSeq(page_data.posts, InWindow)
                     IN  /\ Len(all_posts') >= Len(kept)
                         /\ Tail_n(all_posts', Len(kept)) = kept
       /\ pc = "done" => fetches' = fetches]_vars

\* C4 witness (Scenario B, with 2 for the dates inside the window and 1 for
\* the older ones): page 1 = posts 2, 2 with cursor L1; page 2 = posts 2, 1
\* with cursor L1 again.
C4_Witness ==
    /\ pc = "done" /\ stop_reason = "cursor exhausted"
    /\ start_ts = Some(2) /\ end_ts = Some(2)
    /\ page_count = 2 /\ fetches = 2
    /\ limiter = Some("L1") /\ new_limiter = Some("L1")
    /\ page_data.posts = <<Post(2), Post(1)>>
    /\ PastWindow(start_ts, oldest_in_page)
    /\ all_posts = <<Post(2), Post(2), Post(2)>>

\* C21: while page k > 1 is polled nothing is added to or taken from the
\* posts accumulated from pages 1..k-1; the tenth empty poll ends pagination
\* with "bridge timeout", and no page is requested after that.
C21_BridgeTimeout ==
    [][/\ pc = "poll" => all_posts' = all_posts
       /\ (pc = "poll" /\ attempt' = PollAttempts)
             => /\ pc' = "done"
                /\ stop_reason' = "bridge timeout"
                /\ fetches' = fetches
       /\ (pc = "done" /\ stop_reason = "bridge timeout")
             => /\ fetches' = fetches
                /\ all_posts' = all_posts]_vars

\* C21 witness: page 1 gave two posts inside the window and a cursor, and
\* the request for page 2 was polled ten times without a result.
C21_Witness ==
    /\ pc = "done" /\ stop_reason = "bridge timeout"
    /\ attempt = PollAttempts
    /\ page_count = 2 /\ fetches = 2
    /\ Bounded
    /\ all_posts = <<Post(2), Post(2)>>

\* C22: after a page whose oldest raw timestamp (0 included) is older than
\* the start of a bounded window the loop ends without another fetch; with an
\* unbounded window the loop never ends with "past window"; and after a page
\* whose raw timestamps are all at or after the start, with an advanced
\* cursor, the loop goes on with the new cursor.
C22_PastWindowStop ==
    [][LET raw == {page_data.posts[i].timestamp[1] :
                     i \in {j \in DOMAIN page_data.posts :
                               page_data.posts[j].timestamp # None}}
       IN  /\ (pc = "decide" /\ Bounded /\ (\E t \in raw : t < start_ts[1]))
                => /\ fetches' = fetches
                   /\ pc' = "done" \/ ~LoopGuard(page_count', max_pages')
           /\ ~Bounded => stop_reason' # "past window"
           /\ (pc = "decide" /\ Bounded /\ (\A t \in raw : t >= start_ts[1])
                 /\ ~CursorExhausted(new_limiter, limiter))
                => pc' = "loop" /\ limiter' = new_limiter]_vars

\* C28: whatever the session and the endpoint do, the call eventually
\* returns.
C28_PaginationTerminates == <>(pc = "done")

\* C29: within one pagination no cursor value is sent with more than one
\* page request.
C29_NoPageFetchedTwice ==
    \A i, j \in DOMAIN requested : requested[i] = requested[j] => i = j

\* C12: whatever fails while a page is fetched (poll timeout, transport
\* error, malformed payload), pagination ends by a normal return: the
\* function is never left by an exception.
C12_PageFailureContainment == pc # "raised"

\* C20: with no date window every post of a page obtained with posts is
\* appended, also a post whose timestamp is absent, null or 0: the result
\* grows by the whole page.
C20_UnboundedKeepsAll ==
    [][(~Bounded /\ pc \in {"loop", "result"} /\ pc' = "decide")
          => all_posts' = all_posts \o page_data'.posts]_vars

----------------------------------------------------------------------------
(* Specification of the revenue run: run_extraction from line 1181 on *)

\* The processor after __init__ / load_page_data and a successful extraction
\* that wrote pages json_page_ids to the combined JSON; extracted_page_ids are
\* the flow.page_id values found in its posts (lines 1119-1171).
RevInit ==
    /\ pages_full_data \in PageConfigs
    /\ include_zero_revenue \in BOOLEAN
    /\ \E j \in 1..MaxEntities, e \in 0..MaxEntities :
         /\ e <= j
         /\ json_page_ids = [i \in 1..j |-> i]
         /\ extracted_page_ids = 1..e
    /\ \/ has_credentials = TRUE /\ api_response \in ApiResponses
       \/ has_credentials = FALSE
            /\ api_response = [kind |-> "list", rows |-> ScenarioA_rows]
    /\ known_page_names = {}
    /\ revenue_data = EmptyDict
    /\ revenue_keys = <<>>
    /\ unmatched_revenue_data = EmptyDict
    /\ enhanced_summary_data = <<>>
    /\ api_calls = 0
    /\ rev_pc = "start"

\* self.known_page_names as extract_unmatched_utm_sources reads it (lines
\* 291, 309), were it read before line 136 stored the names of this call
SelfKnownPageNames_stale(stored, computed) == stored

\* self.known_page_names as extract_unmatched_utm_sources reads it (lines
\* 291, 309): line 136 has stored the names computed by this call, whatever
\* an earlier call had left in the attribute.
SelfKnownPageNames(stored, computed) == computed

\* The body of fetch_revenue_for_extracted_pages (lines 110-269): every
\* result starts empty (lines 115-120, 276, 295).
FetchRevenue ==
    /\ known_page_names' = KnownPageNames(pages_full_data)
    /\ IF pages_full_data = <<>>
       THEN /\ revenue_data' = EmptyDict
            /\ revenue_keys' = <<>>
            /\ unmatched_revenue_data' = EmptyDict
            /\ api_calls' = api_calls
       ELSE IF ~has_credentials
       THEN /\ revenue_data' = DefaultRecords(pages_full_data)
            /\ revenue_keys' = PageOrder(pages_full_data)
            /\ unmatched_revenue_data' = EmptyDict
            /\ api_calls' = api_calls
       ELSE LET api_revenue_data == CallSpunkstatsApi(api_response)
                known == SelfKnownPageNames(known_page_names,
                                            KnownPageNames(pages_full_data))
            IN  /\ api_calls' = api_calls + 1
                /\ IF api_revenue_data # None
                   THEN LET data_array == api_revenue_data[1]
                            unmatched ==
                                ExtractUnmatchedUtmSources(
                                    data_array, known, include_zero_revenue)
                            order == UnmatchedOrder(data_array, known)
                        IN  /\ unmatched_revenue_data' = unmatched
                            /\ revenue_data' =
                                 Update(PageRecords(data_array, pages_full_data),
                                        unmatched)
                            /\ revenue_keys' =
                                 Dedupe(PageOrder(pages_full_data) \o
                                        SelectSeq(order,
                                            LAMBDA k : k \in DOMAIN unmatched))
                   ELSE /\ revenue_data' = DefaultRecords(pages_full_data)
                        /\ revenue_keys' = PageOrder(pages_full_data)
                        /\ unmatched_revenue_data' = EmptyDict
    /\ UNCHANGED <<revInputs, enhanced_summary_data>>
    /\ UNCHANGED <<pagVars, csvVars, extVars>>

\* fetch_revenue_for_extracted_pages, called at lines 1182-1194 when page ids
\* were found.
FetchRevenueForExtractedPages ==
    /\ rev_pc = "start"
    /\ extracted_page_ids # {}
    /\ FetchRevenue
    /\ rev_pc' = "fetched"

\* fetch_revenue_for_extracted_pages called once more on the same processor,
\* with the same configuration and the same feed.
RefetchRevenue ==
    /\ rev_pc = "fetched"
    /\ FetchRevenue
    /\ rev_pc' = "refetched"

\* Lines 1195-1196: no page id was found, the revenue fetch is skipped.
SkipRevenueFetch ==
    /\ rev_pc = "start"
    /\ extracted_page_ids = {}
    /\ rev_pc' = "skipped"
    /\ UNCHANGED <<revInputs, known_page_names, revenue_data, revenue_keys,
                   unmatched_revenue_data, enhanced_summary_data, api_calls>>
    /\ UNCHANGED <<pagVars, csvVars, extVars>>

\* process_json_to_csv, summary side (lines 683-734): one row per page of the
\* combined JSON, then the rows for the unmatched sources.
ProcessJsonToCsv ==
    /\ rev_pc \in {"fetched", "skipped"}
    /\ LET all_summary_data ==
               [i \in DOMAIN json_page_ids |->
                   CreateSummaryRow(json_page_ids[i],
                                    JsonPosts(json_page_ids[i]))]
       IN  enhanced_summary_data' =
               IF all_summary_data # <<>>
               THEN AddUnmatchedUtmSummaryRows(all_summary_data)
               ELSE <<>>
    /\ rev_pc' = "done"
    /\ UNCHANGED <<revInputs, known_page_names, revenue_data, revenue_keys,
                   unmatched_revenue_data, api_calls>>
    /\ UNCHANGED <<pagVars, csvVars, extVars>>

InitRevenue == PagIdle /\ RevInit /\ CsvIdle /\ ExtIdle

NextRevenue ==
    \/ FetchRevenueForExtractedPages
    \/ SkipRevenueFetch
    \/ ProcessJsonToCsv

SpecRevenue == InitRevenue /\ [][NextRevenue]_vars

\* The reconciliation alone, run twice.
NextReconcile ==
    \/ FetchRevenueForExtractedPages
    \/ RefetchRevenue

SpecReconcile == InitRevenue /\ [][NextReconcile]_vars

----------------------------------------------------------------------------
(* Properties of the revenue reconciliation *)

\* The reconciliation has run.
Reconciled == rev_pc = "fetched" \/ (rev_pc = "done" /\ extracted_page_ids # {})

\* The reconciliation has run on a feed: pages are configured, the
\* credentials are present and the API answered with a list.
FeedObtained ==
    /\ Reconciled
    /\ pages_full_data # <<>>
    /\ has_credentials
    /\ api_response.kind = "list"

\* The API call failed: request error, undecodable body or a body that is
\* not a list.
FeedFailed ==
    /\ Reconciled
    /\ pages_full_data # <<>>
    /\ has_credentials
    /\ api_response.kind # "list"

Feed == api_response.rows

ConfiguredNames == {pages_full_data[i].name : i \in DOMAIN pages_full_data}

\* The tag of feed row i as delivered, and its payout in cents (0 when it
\* cannot be parsed).
RawTag(i) == Feed[i].utm_s[1]
Payout(i) == IF Feed[i].a = None THEN 0 ELSE Feed[i].a[1]

\* Indices of the feed rows that are objects and whose tag satisfies P.
RowsWhere(P(_)) == {i \in DOMAIN Feed : Feed[i].kind = "dict" /\ P(RawTag(i))}

RECURSIVE SumPayout(_)
SumPayout(I) ==
    IF I = {} THEN 0
    ELSE LET i == CHOOSE j \in I : TRUE IN Payout(i) + SumPayout(I \ {i})

\* The sum of the formatted revenue of the records of d under the keys K.
RECURSIVE SumRevenue(_, _)
SumRevenue(d, K) ==
    IF K = {} THEN 0
    ELSE LET k == CHOOSE j \in K : TRUE
         IN  ParseFloat2(d[k].revenue) + SumRevenue(d, K \ {k})

IsBlank(tag) == \A i \in DOMAIN tag : tag[i] = " "

SpunkStatsOnlyRows ==
    {i \in DOMAIN enhanced_summary_data :
        enhanced_summary_data[i].account_name = "SpunkStats Only"}

\* C5: for any feed and any set of known entity names (unique), the payouts
\* of all feed rows with a non-empty tag sum to the known-entity totals plus
\* the pseudo-entity totals.
C5_RevenueConservation ==
    FeedObtained =>
        SumPayout(RowsWhere(LAMBDA t : ~IsBlank(t)))
          = SumRevenue(revenue_data, ConfiguredNames)
              + SumRevenue(unmatched_revenue_data, DOMAIN unmatched_revenue_data)

\* C6: no name is both a known entity and a pseudo-entity; a row whose tag
\* is a known entity's name is attributed to that entity's record and never
\* gives a pseudo-entity record or summary row.
C6_MutualExclusivity ==
    Reconciled =>
        /\ DOMAIN unmatched_revenue_data \cap ConfiguredNames = {}
        /\ \A i \in SpunkStatsOnlyRows :
               enhanced_summary_data[i].pagename \notin ConfiguredNames
        /\ FeedObtained =>
             \A n \in ConfiguredNames :
                 RowsWhere(LAMBDA t : t = n) # {}
                   => /\ n \in DOMAIN revenue_data
                      /\ revenue_data[n].timestamp # "N/A"
                      /\ n \notin DOMAIN unmatched_revenue_data

\* C6 witness: the feed tags one row with a known name and one with another
\* name; only the latter became a pseudo-entity, with its summary row.
C6_Witness ==
    /\ rev_pc = "done" /\ FeedObtained
    /\ PageA \in ConfiguredNames
    /\ RowsWhere(LAMBDA t : t = PageA) # {}
    /\ RowsWhere(LAMBDA t : t = Unknown1) # {}
    /\ DOMAIN unmatched_revenue_data = {Unknown1}
    /\ \E i \in SpunkStatsOnlyRows :
           enhanced_summary_data[i].pagename = Unknown1

\* C7: whatever the feed outcome (rows, empty list, API failure, missing
\* credentials), every known entity has a record in the result, and an
\* entity no row is matched to has revenue "0.00" and date "N/A".
C7_ZeroMatchCompleteness ==
    (Reconciled /\ pages_full_data # <<>>) =>
        \A n \in ConfiguredNames :
            /\ n \in DOMAIN revenue_data
            /\ (~FeedObtained \/ RowsWhere(LAMBDA t : Strip(t) = n) = {})
                 => /\ revenue_data[n].revenue = <<"0", ".", "0", "0">>
                    /\ revenue_data[n].timestamp = "N/A"

\* C7 witness: a feed with a row for PageA and none for PageB; PageB is
\* present with the zero record next to PageA's total.
C7_Witness ==
    /\ rev_pc = "fetched" /\ FeedObtained
    /\ ConfiguredNames = {PageA, PageName(2)}
    /\ RowsWhere(LAMBDA t : Strip(t) = PageName(2)) = {}
    /\ revenue_data[PageA].revenue = <<"5", ".", "0", "0">>
    /\ revenue_data[PageName(2)] = DefaultRecord

C9_FeedFailureDegradation ==
    FeedFailed =>
        /\ revenue_data = [n \in ConfiguredNames |-> DefaultRecord]
        /\ unmatched_revenue_data = EmptyDict
        /\ rev_pc = "fetched" => ENABLED ProcessJsonToCsv
        /\ rev_pc = "done" =>
             /\ SpunkStatsOnlyRows = {}
             /\ Len(enhanced_summary_data) = Len(json_page_ids)
             /\ \A i \in DOMAIN enhanced_summary_data :
                    /\ enhanced_summary_data[i].revenue = <<"0", ".", "0", "0">>
                    /\ enhanced_summary_data[i].revenue_timestamp = "N/A"

\* C9 witness: the API answered with a JSON object wrapping rows for PageA
\* and Unknown1; the run completed with zero records and no added row.
C9_Witness ==
    /\ rev_pc = "done" /\ FeedFailed
    /\ api_response.kind = "not_list" /\ api_response.rows = ScenarioA_rows
    /\ api_calls = 1
    /\ ConfiguredNames = {PageA, PageName(2)}
    /\ revenue_data[PageA] = DefaultRecord
    /\ Len(enhanced_summary_data) = Len(json_page_ids)
    /\ SpunkStatsOnlyRows = {}

C13_SingleFeedFetch == rev_pc = "done" => api_calls = 1

\* C30: in a finished run whose reconciliation obtained a feed, the revenue
\* column of the final summary sums to the payouts of all feed rows with a
\* non-empty tag.
C30_SummaryRevenueConservation ==
    (rev_pc = "done" /\ FeedObtained) =>
        SumRevenue(enhanced_summary_data, DOMAIN enhanced_summary_data)
          = SumPayout(RowsWhere(LAMBDA t : ~IsBlank(t)))

\* The sum over the feed rows I of counter f ("c", "cl" or "l"), null and
\* unparsable counted as 0.
RECURSIVE SumCounter(_, _)
SumCounter(I, f) ==
    IF I = {} THEN 0
    ELSE LET i == CHOOSE j \in I : TRUE
         IN  (IF Feed[i][f] = None THEN 0 ELSE Feed[i][f][1])
               + SumCounter(I \ {i}, f)

\* C27: for each known entity with matching rows, the conversions, clicks
\* and leads totals are each the sum of that field over its matching rows,
\* a null or unparsable value counting as 0 in its own field only.
C27_CounterCoercion ==
    FeedObtained =>
        \A n \in ConfiguredNames :
            LET I == RowsWhere(LAMBDA t : Strip(t) = n)
            IN  I # {} =>
                  /\ revenue_data[n].conversion_count = Digits(SumCounter(I, "c"))
                  /\ revenue_data[n].clicks = Digits(SumCounter(I, "cl"))
                  /\ revenue_data[n].leads = Digits(SumCounter(I, "l"))

\* C26: the enhanced summary is the page rows, unchanged and in order,
\* followed by exactly one row per pseudo-entity, each with zero activity
\* totals and account_name "SpunkStats Only"; after a reconciliation on a
\* feed, an unmatched tag whose payouts sum to zero has its row exactly when
\* include_zero_revenue is not false.
C26_PseudoEntityRows ==
    rev_pc = "done" =>
        LET n == Len(json_page_ids)
            extra == (n + 1)..Len(enhanced_summary_data)
            zeroTags == {k \in {Strip(RawTag(i)) :
                                   i \in RowsWhere(LAMBDA t : ~IsBlank(t))} :
                           /\ k \notin ConfiguredNames
                           /\ SumPayout(RowsWhere(LAMBDA t : Strip(t) = k)) = 0}
        IN  /\ Len(enhanced_summary_data) >= n
            /\ \A i \in 1..n :
                   enhanced_summary_data[i]
                     = CreateSummaryRow(json_page_ids[i],
                                        JsonPosts(json_page_ids[i]))
            /\ Cardinality(extra) = Cardinality(DOMAIN unmatched_revenue_data)
            /\ \A k \in DOMAIN unmatched_revenue_data :
                   \E i \in extra : enhanced_summary_data[i].pagename = k
            /\ \A i \in extra :
                   LET row == enhanced_summary_data[i]
                   IN  /\ row.pagename \in DOMAIN unmatched_revenue_data
                       /\ row.totalCampaigns = 0 /\ row.totalSent = 0
                       /\ row.totalDelivered = 0 /\ row.totalRead = 0
                       /\ row.totalClicked = 0
                       /\ row.account_name = "SpunkStats Only"
            /\ FeedObtained =>
                   \A k \in zeroTags :
                       (\E i \in extra : enhanced_summary_data[i].pagename = k)
                         <=> include_zero_revenue

\* C26 witness: one page row followed by the row of Unknown1, whose payouts
\* sum to zero, with zero revenue included by the configuration.
C26_Witness ==
    /\ rev_pc = "done" /\ FeedObtained /\ include_zero_revenue
    /\ Len(json_page_ids) = 1 /\ Len(enhanced_summary_data) = 2
    /\ enhanced_summary_data[1].account_name = "Known"
    /\ enhanced_summary_data[2].pagename = Unknown1
    /\ enhanced_summary_data[2].account_name = "SpunkStats Only"
    /\ enhanced_summary_data[2].revenue = <<"0", ".", "0", "0">>
    /\ enhanced_summary_data[2].totalSent = 0

\* C25: in a finished run with a usable feed where some page of the combined
\* JSON has no record, the summary row of every configured page carries the
\* total of the feed rows tagged with its name, and every unmatched tag the
\* reconciliation keeps has its "SpunkStats Only" row.
C25_RevenueDespiteZeroActivity ==
    (/\ rev_pc = "done"
     /\ pages_full_data # <<>> /\ has_credentials /\ api_response.kind = "list"
     /\ \E i \in DOMAIN json_page_ids :
            json_page_ids[i] \notin extracted_page_ids)
      => /\ \A i \in DOMAIN json_page_ids :
               json_page_ids[i] \in DOMAIN pages_full_data
                 => enhanced_summary_data[i].revenue
                      = Format2(SumPayout(RowsWhere(
                            LAMBDA t :
                              Strip(t) = pages_full_data[json_page_ids[i]].name)))
         /\ \A k \in DOMAIN ExtractUnmatchedUtmSources(
                            Feed, ConfiguredNames, include_zero_revenue) :
               \E r \in SpunkStatsOnlyRows :
                   enhanced_summary_data[r].pagename = k

----------------------------------------------------------------------------
(* Specification of the CSV conversion: extract_data_from_json *)

\* The detailed rows of the posts given, in order, excluded posts left out
\* (lines 762-765).
RECURSIVE DetailedRows(_, _)
DetailedRows(page_id, posts) ==
    IF posts = <<>> THEN <<>>
    ELSE DetailedRows(page_id, SubSeq(posts, 1, Len(posts) - 1))
           \o CreateDetailedRow(page_id, posts[Len(posts)])

\* detailed_data after the loop over the pages (lines 753-770)
RECURSIVE AllDetailedRows(_)
AllDetailedRows(pages) ==
    IF pages = <<>> THEN <<>>
    ELSE AllDetailedRows(SubSeq(pages, 1, Len(pages) - 1))
           \o DetailedRows(pages[Len(pages)].page_id, pages[Len(pages)].posts)

CsvInit ==
    /\ \E k \in 1..MaxEntities : csv_json \in CsvJsons(k)
    /\ detailed_data = <<>>
    /\ summary_data = <<>>
    /\ csv_pc = "start"

\* extract_data_from_json (lines 741-796), multi-page format
ExtractDataFromJson ==
    /\ csv_pc = "start"
    /\ detailed_data' = AllDetailedRows(csv_json)
    /\ summary_data' =
         [i \in DOMAIN csv_json |->
             CreateSummaryRow(csv_json[i].page_id, csv_json[i].posts)]
    /\ csv_pc' = "done"
    /\ UNCHANGED csv_json
    /\ UNCHANGED <<pagVars, revVars, extVars>>

InitCsv == PagIdle /\ RevIdle /\ CsvInit /\ ExtIdle

NextCsv == ExtractDataFromJson

SpecCsv == InitCsv /\ [][NextCsv]_vars

\* The conversion of one page whose posts carry every kind of stats.
SummaryInit ==
    /\ \E ps \in SeqsUpTo(StatsPosts, MaxCsvPosts) :
           csv_json = <<[page_id |-> 1, posts |-> ps]>>
    /\ detailed_data = <<>>
    /\ summary_data = <<>>
    /\ csv_pc = "start"

InitSummary == PagIdle /\ RevIdle /\ SummaryInit /\ ExtIdle

SpecSummary == InitSummary /\ [][NextCsv]_vars

----------------------------------------------------------------------------
(* Properties of the CSV conversion *)

\* The posts of a page that are not excluded.
Counted(posts) == SelectSeq(posts, LAMBDA post : ~IsExcluded(post.name))

\* C10: a post whose campaign name matches the exclusion list gives no
\* detailed row and is not counted in its page's summary totals: the totals
\* are those of the posts that are not excluded.
C10_ExclusionUpstream ==
    csv_pc = "done" =>
        /\ \A i \in DOMAIN detailed_data :
               ~IsExcluded(detailed_data[i].campaign_name)
        /\ \A i \in DOMAIN csv_json :
               /\ summary_data[i].totalCampaigns = Len(Counted(csv_json[i].posts))
               /\ summary_data[i].totalSent = TotalSent(Counted(csv_json[i].posts))

\* C24: the detailed output holds a row for exactly the posts whose lowered
\* name contains no lowered entry of the exclusion list as a substring, in
\* order.
C24_SubstringExclusion ==
    LET kept(post) ==
            \A k \in DOMAIN EXCLUDE_CAMPAIGN_NAMES :
                ~Contains(Lower(EXCLUDE_CAMPAIGN_NAMES[k]), Lower(post.name))
        names(posts) == [n \in DOMAIN posts |-> posts[n].name]
    IN  csv_pc = "done" =>
          \A i \in DOMAIN csv_json :
              LET rows == SelectSeq(detailed_data,
                              LAMBDA r : r.pagename = PageName(csv_json[i].page_id))
              IN  [n \in DOMAIN rows |-> rows[n].campaign_name]
                    = names(SelectSeq(csv_json[i].posts, kept))

\* A stats value with absent and null counted as 0.
Num(o) == IF o = None THEN 0 ELSE o[1]

\* The read value of a post when it is a non-zero number, else its opened
\* value.
ReadCount(post) ==
    IF post.read # None /\ post.read[1] # 0 THEN post.read[1] ELSE Num(post.opened)

\* The sum of f over the posts p[1..n].
RECURSIVE SumOver(_, _, _)
SumOver(f(_), p, n) == IF n = 0 THEN 0 ELSE SumOver(f, p, n - 1) + f(p[n])

\* C16: for posts whose sent, delivered, read, opened and clicked are each a
\* number, absent or null, the page gets its summary row, and each total is
\* the sum over the posts with absent and null counted as 0, a post's read
\* count being its read value when non-zero and its opened value otherwise.
C16_NullSafeStats ==
    csv_pc = "done" =>
        /\ Len(summary_data) = Len(csv_json)
        /\ \A i \in DOMAIN csv_json :
               LET p == csv_json[i].posts
                   n == Len(p)
                   row == summary_data[i]
               IN  /\ row.totalSent = SumOver(LAMBDA x : Num(x.sent), p, n)
                   /\ row.totalDelivered = SumOver(LAMBDA x : Num(x.delivered), p, n)
                   /\ row.totalRead = SumOver(ReadCount, p, n)
                   /\ row.totalClicked = SumOver(LAMBDA x : Num(x.clicked), p, n)

\* C16 witness: a page of two posts, the first with read 0 and opened 3 and
\* no other stats, the second with read 2; the read total is 5.
C16_Witness ==
    /\ csv_pc = "done"
    /\ Len(csv_json) = 1 /\ Len(csv_json[1].posts) = 2
    /\ csv_json[1].posts[1] =
         StatsPost(Name_promo, None, None, Some(0), Some(3), None)
    /\ csv_json[1].posts[2].read = Some(2)
    /\ csv_json[1].posts[2].sent = Some(5)
    /\ summary_data[1].totalRead = 5
    /\ summary_data[1].totalSent = 5

----------------------------------------------------------------------------
(* Specification of a run: run_extraction up to the end of _execute_extraction *)

\* The configured pages, and the positions of the active ones.  A page is
\* named by its position in "pages" (the ids of a configuration differ).
RunPages == config_file[1].pages[1]
ActivePages == ActiveIndexes(RunPages)

RunInit ==
    /\ config_file \in ConfigFiles(MaxEntities)
    /\ cfg_verbose \in BOOLEAN
    /\ profile_name \in {None, Some("profile")}
    /\ run_i = 0
    /\ all_results = <<>>
    /\ current_driver = None
    /\ sessions_opened = 0
    /\ outcomes = <<>>
    /\ run_result = RunResult(FALSE, "", <<>>)
    /\ run_pc = "start"

\* run_extraction lines 1069-1071, then the profile choice of
\* extract_with_custom_range (lines 1293-1303)
RunInitialize ==
    /\ run_pc = "start"
    /\ IF ~Initialize(config_file, cfg_verbose)
       THEN /\ run_result' = RunResult(FALSE, "Failed to initialize extractor", <<>>)
            /\ run_pc' = "done"
            /\ UNCHANGED run_i
       ELSE IF profile_name = None
       THEN /\ run_result' = RunResult(FALSE, "No profile available", <<>>)
            /\ run_pc' = "done"
            /\ UNCHANGED run_i
       ELSE /\ run_pc' = "loop"
            /\ run_i' = 1
            /\ UNCHANGED run_result
    /\ UNCHANGED <<config_file, cfg_verbose, profile_name, all_results,
                   current_driver, sessions_opened, outcomes>>
    /\ UNCHANGED <<coreVars, sanVars, pipeVars>>

\* The head of the loop body (lines 624-626) and extract_data_from_page up to
\* its try (lines 489-500).  page["id"], page["name"] and create_fast_driver
\* are outside every try of the two functions: what they raise is caught by
\* _execute_extraction (lines 1424-1431), which returns the failure.
OpenSession ==
    /\ run_pc = "loop"
    /\ run_i <= Len(ActivePages)
    /\ LET page == RunPages[ActivePages[run_i]]
       IN  IF page.id = None \/ page.name = None
           THEN /\ run_result' = RunResult(FALSE, "Extraction failed", <<>>)
                /\ run_pc' = "done"
                /\ UNCHANGED <<current_driver, sessions_opened, outcomes>>
           ELSE \E created \in BOOLEAN :
                  IF created
                  THEN /\ current_driver' = Some(ActivePages[run_i])
                       /\ sessions_opened' = sessions_opened + 1
                       /\ run_pc' = "session"
                       /\ UNCHANGED <<run_result, outcomes>>
                  ELSE /\ outcomes' =
                            Append(outcomes, [kind |-> "driver_failed", posts |-> 0])
                       /\ run_result' = RunResult(FALSE, "Extraction failed", <<>>)
                       /\ run_pc' = "done"
                       /\ UNCHANGED <<current_driver, sessions_opened>>
    /\ UNCHANGED <<config_file, cfg_verbose, profile_name, run_i, all_results>>
    /\ UNCHANGED <<coreVars, sanVars, pipeVars>>

\* TraversePage leaving the driver open when the traversal raised.
TraversePage_noFinally ==
    /\ run_pc = "session"
    /\ \E raised \in BOOLEAN, n \in 0..MaxPosts :
         LET page_posts == IF raised THEN 0 ELSE n
         IN  /\ raised => n = 0
             /\ all_results' =
                  Append(all_results,
                         [page |-> ActivePages[run_i], total_posts |-> page_posts])
             /\ outcomes' =
                  Append(outcomes,
                         [kind |-> IF raised THEN "traversal_failed" ELSE "ok",
                          posts |-> n])
             /\ current_driver' = IF raised THEN current_driver ELSE None
    /\ run_i' = run_i + 1
    /\ run_pc' = "loop"
    /\ UNCHANGED <<config_file, cfg_verbose, profile_name, sessions_opened,
                   run_result>>
    /\ UNCHANGED <<coreVars, sanVars, pipeVars>>

\* The try of extract_data_from_page (lines 502-596) and the rest of the loop
\* body (lines 646-655): the traversal gives n posts, or raises and gives [];
\* the driver is quit either way and the page's result is stored.
TraversePage ==
    /\ run_pc = "session"
    /\ \E raised \in BOOLEAN, n \in 0..MaxPosts :
         LET page_posts == IF raised THEN 0 ELSE n
         IN  /\ raised => n = 0
             /\ all_results' =
                  Append(all_results,
                         [page |-> ActivePages[run_i], total_posts |-> page_posts])
             /\ outcomes' =
                  Append(outcomes,
                         [kind |-> IF raised THEN "traversal_failed" ELSE "ok",
                          posts |-> n])
    /\ current_driver' = None
    /\ run_i' = run_i + 1
    /\ run_pc' = "loop"
    /\ UNCHANGED <<config_file, cfg_verbose, profile_name, sessions_opened,
                   run_result>>
    /\ UNCHANGED <<coreVars, sanVars, pipeVars>>

\* _execute_extraction after the loop (lines 1385-1422)
FinishExtraction ==
    /\ run_pc = "loop"
    /\ run_i > Len(ActivePages)
    /\ run_result' =
         IF all_results = <<>>
         THEN RunResult(FALSE, "No data extracted from any pages", <<>>)
         ELSE RunResult(TRUE, "", all_results)
    /\ run_pc' = "done"
    /\ UNCHANGED <<config_file, cfg_verbose, profile_name, run_i, all_results,
                   current_driver, sessions_opened, outcomes>>
    /\ UNCHANGED <<coreVars, sanVars, pipeVars>>

InitRun == PagIdle /\ RevIdle /\ CsvIdle /\ RunInit /\ SanIdle /\ PipeIdle

NextRun ==
    \/ RunInitialize
    \/ OpenSession
    \/ TraversePage
    \/ FinishExtraction

SpecRun == InitRun /\ [][NextRun]_vars

----------------------------------------------------------------------------
(* Properties of a run *)

\* C23: the sessions opened so far are all closed except at most one, the
\* open one is the session of the active entity whose turn it is, between two
\* entities no session is open (also after a traversal that raised), and the
\* stored results follow the configured order of the active entities.
C23_SessionExclusivity ==
    LET closed == Cardinality({i \in DOMAIN outcomes :
                     outcomes[i].kind \in {"ok", "traversal_failed"}})
    IN  /\ sessions_opened - closed \in {0, 1}
        /\ (current_driver # None) <=> (sessions_opened - closed = 1)
        /\ current_driver # None
             => /\ run_pc = "session"
                /\ run_i = sessions_opened
                /\ current_driver = Some(ActivePages[run_i])
        /\ run_pc \in {"loop", "done"} => current_driver = None
        /\ \A i \in DOMAIN all_results : all_results[i].page = ActivePages[i]

\* C23 witness: the traversal of the first entity raised and the session of
\* the second entity is now the only one open.
C23_Witness ==
    /\ run_pc = "session"
    /\ sessions_opened = 2
    /\ Len(outcomes) = 1 /\ outcomes[1].kind = "traversal_failed"
    /\ current_driver = Some(ActivePages[2])

\* C11: when the session of an entity cannot be opened, or its traversal
\* fails, the run still succeeds with one result per active entity: zero
\* records for the failed entity, and the records collected for the others.
C11_FailureIsolation ==
    (run_pc = "done" /\ outcomes # <<>>) =>
        /\ run_result.success
        /\ Len(run_result.results) = Len(ActivePages)
        /\ \A k \in DOMAIN run_result.results :
               /\ run_result.results[k].page = ActivePages[k]
               /\ run_result.results[k].total_posts =
                    (IF outcomes[k].kind = "ok" THEN outcomes[k].posts ELSE 0)

\* The configuration is missing or invalid: the file is absent, has no
\* "pages" key, lists no page, lists no active page, or lists a page without
\* id or name.
InvalidConfig ==
    \/ config_file = None
    \/ config_file[1].pages = None
    \/ RunPages = <<>>
    \/ \A i \in DOMAIN RunPages :
           RunPages[i].active # None /\ ~RunPages[i].active[1]
    \/ \E i \in DOMAIN RunPages : RunPages[i].id = None \/ RunPages[i].name = None

\* C15: with a missing or invalid configuration the run never enters the loop
\* over the pages (where sessions are opened and pages fetched, and which the
\* revenue step follows): no session is ever opened, and the run ends with
\* success = False from the failed initialisation.
C15_ConfigHardFailure ==
    (run_pc # "idle" /\ InvalidConfig) =>
        /\ sessions_opened = 0
        /\ current_driver = None
        /\ run_pc \in {"start", "done"}
        /\ run_pc = "done" =>
               /\ ~run_result.success
               /\ run_result.error = "Failed to initialize extractor"

\* A run has ended on a configuration whose first page is complete and
\* active and whose second page is inactive and has no name, read silently.
C15_Witness ==
    /\ run_pc = "done"
    /\ ~cfg_verbose
    /\ profile_name # None
    /\ config_file # None
    /\ config_file[1].pages # None
    /\ Len(RunPages) = 2
    /\ RunPages[1] = [id |-> Some("id"), name |-> Some("name"), active |-> None]
    /\ RunPages[2] = [id |-> Some("id"), name |-> None, active |-> Some(FALSE)]
    /\ ~run_result.success

----------------------------------------------------------------------------
(* Specification of sanitize_csv_data *)

SanInit ==
    /\ san_data \in SanInputs(MaxCols)
    /\ sanitized_data = <<>>
    /\ san_pc = "start"

\* sanitize_csv_data (lines 960-975)
SanitizeData ==
    /\ san_pc = "start"
    /\ sanitized_data' = SanitizeCsvData(san_data)
    /\ san_pc' = "done"
    /\ UNCHANGED san_data
    /\ UNCHANGED <<coreVars, runVars, pipeVars>>

InitSanitize == PagIdle /\ RevIdle /\ CsvIdle /\ RunIdle /\ SanInit /\ PipeIdle

NextSanitize == SanitizeData

SpecSanitize == InitSanitize /\ [][NextSanitize]_vars

\* The value is None, NaN, +inf or -inf.
Unwritable(v) == v.t = "none" \/ (v.t = "float" /\ v.mag \in {"nan", "inf"})

\* C17: sanitize_csv_data gives the same rows with the same keys in the same
\* order; a value that is None, NaN, +inf or -inf becomes "" and every other
\* value is unchanged, so no None, NaN or infinity is left.
C17_CsvSanitisation ==
    san_pc = "done" =>
        /\ Len(sanitized_data) = Len(san_data)
        /\ \A i \in DOMAIN san_data :
               /\ Len(sanitized_data[i]) = Len(san_data[i])
               /\ \A j \in DOMAIN san_data[i] :
                      /\ sanitized_data[i][j].key = san_data[i][j].key
                      /\ sanitized_data[i][j].value =
                           (IF Unwritable(san_data[i][j].value) THEN PyStr("")
                            ELSE san_data[i][j].value)
                      /\ ~Unwritable(sanitized_data[i][j].value)

\* C17 witness: a row holding -inf and an int was sanitised together with
\* the test's row of None and NaN.
C17_Witness ==
    /\ san_pc = "done"
    /\ san_data = <<Row(<<PyFloat(-1, "inf"), PyValue("int", -1, "7")>>), TestRows[2]>>
    /\ sanitized_data[1] = Row(<<PyStr(""), PyValue("int", -1, "7")>>)
    /\ sanitized_data[2] = Row(<<PyStr("Page2"), PyStr(""), PyStr("")>>)

----------------------------------------------------------------------------
(* Specification of the pipeline: run_full_pipeline after the extraction *)

PipeInit ==
    /\ csv_files \in CsvDirs(MaxFiles)
    /\ clear_files \in BOOLEAN
    /\ upload_i = 1
    /\ uploads = <<>>
    /\ upload_success = FALSE
    /\ deleted = {}
    /\ pipe_pc = "upload"

\* One turn of the loop of upload_all_csv_files (lines 200-215): the file is
\* sent to its sheet, and upload_csv_data reports success or failure.
UploadCsvData ==
    /\ pipe_pc = "upload"
    /\ upload_i <= Len(csv_files)
    /\ \E ok \in BOOLEAN :
         uploads' = Append(uploads, [file |-> csv_files[upload_i],
                                     sheet |-> TargetSheet(csv_files[upload_i]),
                                     ok |-> ok])
    /\ upload_i' = upload_i + 1
    /\ UNCHANGED <<csv_files, clear_files, upload_success, deleted, pipe_pc>>
    /\ UNCHANGED <<coreVars, runVars, sanVars>>

\* The end of upload_all_csv_files (lines 192-195, 217-220) and the branch of
\* run_full_pipeline on its result (lines 323-351).
FinishUpload ==
    /\ pipe_pc = "upload"
    /\ upload_i > Len(csv_files)
    /\ upload_success' = (Cardinality({k \in DOMAIN uploads : uploads[k].ok}) > 0)
    /\ pipe_pc' = IF upload_success' /\ clear_files THEN "cleanup" ELSE "done"
    /\ UNCHANGED <<csv_files, clear_files, upload_i, uploads, deleted>>
    /\ UNCHANGED <<coreVars, runVars, sanVars>>

\* cleanup_files (lines 353-394): every file of csv_output is removed.
CleanupFiles ==
    /\ pipe_pc = "cleanup"
    /\ deleted' = {csv_files[i] : i \in DOMAIN csv_files}
    /\ pipe_pc' = "done"
    /\ UNCHANGED <<csv_files, clear_files, upload_i, uploads, upload_success>>
    /\ UNCHANGED <<coreVars, runVars, sanVars>>

InitPipeline == PagIdle /\ RevIdle /\ CsvIdle /\ RunIdle /\ SanIdle /\ PipeInit

NextPipeline ==
    \/ UploadCsvData
    \/ FinishUpload
    \/ CleanupFiles

SpecPipeline == InitPipeline /\ [][NextPipeline]_vars

\* C18: the configuration maps detailed data to the sheet "source" and
\* summary data to "total_report"; every file whose name contains "detailed"
\* is sent to the former, every file whose name contains "summary" and not
\* "detailed" to the latter.
C18_SheetRouting ==
    uploads # <<>> =>
        /\ SheetsMapping.detailed = "source"
        /\ SheetsMapping.summary = "total_report"
        /\ \A k \in DOMAIN uploads :
               /\ Contains(Word_detailed, uploads[k].file)
                    => uploads[k].sheet = "source"
               /\ (Contains(Word_summary, uploads[k].file)
                     /\ ~Contains(Word_detailed, uploads[k].file))
                    => uploads[k].sheet = "total_report"

\* C19: a file removed by the cleanup was uploaded successfully before: a
\* file whose upload failed is never removed.
C19_DeleteAfterUpload ==
    \A f \in deleted : \E k \in DOMAIN uploads : uploads[k].file = f /\ uploads[k].ok

====
